---- MODULE Spec2Model ----
(***************************************************************************)
(* ISO 8583 message codec (iso8583.go) and TCP dispatch engine             *)
(* (Iso8583Engine.go).  A Go string is a TLA+ string with one character    *)
(* per byte; Len, \o and SubSeq are byte length, concatenation and         *)
(* slicing.  The bytes are the ASCII characters and the two bytes 0xC3 and *)
(* 0xA9, written Ã and © (their Latin-1 characters): the Go string "é" is  *)
(* "Ã©".  A Go map[int]string is a function whose DOMAIN is the key set.   *)
(* A Go run-time panic is the outcome "panic".                             *)
(***************************************************************************)
EXTENDS Integers, Sequences, FiniteSets, TLC

VARIABLES
    isoConfig,      \* package variable isoConfig: the entries of the schema map
    loader,         \* whether isoConfig is nil, the Load calls made, the Load
                    \* that has allocated the map and is still filling it
    created,        \* whether NewISO8583 has returned the object under test
    isoElement,     \* isoObject.isoElement of the object under test
    last,           \* outcome of the last codec call made on that object
    engine,         \* TCPIso8583Engine registrations + defaultHandler + run state
    conns,          \* one record per accepted connection (goroutine handler)
    history         \* history variable, no state of the program: for each
                    \* connection between its two reads of the registrations,
                    \* what the registrations in place at some instant since
                    \* the first read select for its key

vars == <<isoConfig, loader, created, isoElement, last, engine, conns, history>>

-----------------------------------------------------------------------------
(* Bounds of the model *)

\* SetField and SetMTI are called on an object that holds at most this many
\* keys (adding a key only below it).
MaxFields == 3
\* Parse is called on an object that holds at most this many keys.
MaxPrior == 1
\* Number of connections the accept loop accepts.
MaxConns == 2
\* Number of Load calls made.
MaxLoads == 2

-----------------------------------------------------------------------------
(* Strings *)

Chr(s, i) == SubSeq(s, i, i)

Chars(s) == {Chr(s, i) : i \in 1..Len(s)}

IndexOf(s, c) == CHOOSE i \in 1..Len(s) : Chr(s, i) = c

RECURSIVE Repeat(_, _)
Repeat(s, n) ==
    IF n <= 0 THEN ""
    ELSE LET h == Repeat(s, n \div 2)
         IN  h \o h \o (IF n % 2 = 1 THEN s ELSE "")

DecDigits == "0123456789"
HexLower == "0123456789abcdef"
HexUpper == "0123456789ABCDEF"
LowerLetters == "abcdefghijklmnopqrstuvwxyz"
UpperLetters == "ABCDEFGHIJKLMNOPQRSTUVWXYZ"

\* The lead bytes of two-byte UTF-8 sequences and the continuation bytes
\* among the bytes of the model.
Lead2 == "Ã"
Continuation == "©"

\* utf8.RuneCountInString(s), which is how fmt measures a string against a
\* width: a lead byte with its continuation byte is one rune, any other
\* byte (ASCII, or not part of a valid sequence) is one rune of its own.
RECURSIVE RuneCount(_)
RuneCount(s) ==
    IF Len(s) = 0 THEN 0
    ELSE IF Len(s) >= 2 /\ Chr(s, 1) \in Chars(Lead2)
                        /\ Chr(s, 2) \in Chars(Continuation)
         THEN 1 + RuneCount(SubSeq(s, 3, Len(s)))
         ELSE 1 + RuneCount(SubSeq(s, 2, Len(s)))

\* Go slice expression s[lo:hi]: panics unless 0 <= lo <= hi <= len(s).
SliceOK(s, lo, hi) == 0 <= lo /\ lo <= hi /\ hi <= Len(s)
Slice(s, lo, hi) == SubSeq(s, lo + 1, hi)

\* strconv.Itoa for n >= 0.
RECURSIVE Itoa(_)
Itoa(n) ==
    IF n < 10 THEN Chr(DecDigits, n + 1)
    ELSE Itoa(n \div 10) \o Chr(DecDigits, (n % 10) + 1)

\* fmt.Sprintf("%0<w>d", n) for n >= 0: at least w digits, zero-padded left.
SprintfZeroD(w, n) == Repeat("0", w - Len(Itoa(n))) \o Itoa(n)

IsDigits(s) == Len(s) > 0 /\ Chars(s) \subseteq Chars(DecDigits)

RECURSIVE DigitsValue(_)
DigitsValue(s) ==
    IF Len(s) = 0 THEN 0
    ELSE 10 * DigitsValue(SubSeq(s, 1, Len(s) - 1))
         + (IndexOf(DecDigits, Chr(s, Len(s))) - 1)

\* strconv.Atoi with its error discarded (length, _ := strconv.Atoi(..)):
\* optional sign then decimal digits; 0 on a syntax error.
Atoi(s) ==
    IF IsDigits(s) THEN DigitsValue(s)
    ELSE IF Len(s) > 1 /\ Chr(s, 1) = "+" /\ IsDigits(SubSeq(s, 2, Len(s)))
         THEN DigitsValue(SubSeq(s, 2, Len(s)))
    ELSE IF Len(s) > 1 /\ Chr(s, 1) = "-" /\ IsDigits(SubSeq(s, 2, Len(s)))
         THEN 0 - DigitsValue(SubSeq(s, 2, Len(s)))
    ELSE 0

\* strings.ToUpper on single-byte text.
RECURSIVE ToUpper(_)
ToUpper(s) ==
    IF Len(s) = 0 THEN ""
    ELSE LET c == Chr(s, 1)
         IN  (IF c \in Chars(LowerLetters)
              THEN Chr(UpperLetters, IndexOf(LowerLetters, c))
              ELSE c) \o ToUpper(SubSeq(s, 2, Len(s)))

\* encoding/hex
HexNibble(c) ==
    IF c \in Chars(HexLower) THEN IndexOf(HexLower, c) - 1
    ELSE IndexOf(HexUpper, c) - 1

HexDecodeOK(s) ==
    /\ Len(s) % 2 = 0
    /\ Chars(s) \subseteq (Chars(HexLower) \cup Chars(HexUpper))

\* hex.DecodeString: the byte sequence (only used when HexDecodeOK).
HexDecode(s) ==
    [k \in 1..(Len(s) \div 2) |->
        16 * HexNibble(Chr(s, 2 * k - 1)) + HexNibble(Chr(s, 2 * k))]

\* hex.EncodeToString: lower-case hex of a byte sequence.
RECURSIVE HexEncode(_)
HexEncode(bytes) ==
    IF Len(bytes) = 0 THEN ""
    ELSE Chr(HexLower, (bytes[1] \div 16) + 1)
         \o Chr(HexLower, (bytes[1] % 16) + 1)
         \o HexEncode(Tail(bytes))

-----------------------------------------------------------------------------
(* Maps *)

EmptyMap == <<>>

MapSet(m, k, v) == [x \in (DOMAIN m) \cup {k} |-> IF x = k THEN v ELSE m[x]]

\* m[k] on a Go map[int]string: the zero value "" when the key is absent.
MapGet(m, k) == IF k \in DOMAIN m THEN m[k] ELSE ""

-----------------------------------------------------------------------------
(* Bitmap bits *)

RECURSIVE Pow2(_)
Pow2(n) == IF n = 0 THEN 1 ELSE 2 * Pow2(n - 1)

\* bitmapBytes[(i-1)/8] & (1 << (7 - ((i-1) % 8))) > 0
BitSet(bytes, i) ==
    (bytes[((i - 1) \div 8) + 1] \div Pow2(7 - ((i - 1) % 8))) % 2 = 1

LastField == 128

-----------------------------------------------------------------------------
(* Field schema *)

FC(ct, label, lt, n) ==
    [ContentType |-> ct, Label |-> label, LenType |-> lt, MaxLen |-> n]

\* The schema of the end-to-end example: 8-byte (16 hex character) bitmap.
SchemaExample ==
    (0 :> FC("n", "MTI", "fixed", 4)) @@
    (1 :> FC("x", "Bitmap", "fixed", 16)) @@
    (2 :> FC("n", "PAN", "llvar", 19)) @@
    (3 :> FC("n", "Processing Code", "fixed", 6))

\* A schema whose bitmap entry covers primary and secondary bitmap
\* (32 hex characters); field 4 has a length type the codec does not know,
\* field 5 is a fixed entry with a negative MaxLen and field 7 one with a
\* MaxLen above a million (Load validates nothing), field 6 has no entry.
SchemaFull ==
    (0 :> FC("n", "MTI", "fixed", 4)) @@
    (1 :> FC("b", "Bitmap", "fixed", 32)) @@
    (2 :> FC("n", "PAN", "llvar", 19)) @@
    (3 :> FC("n", "Processing Code", "fixed", 6)) @@
    (4 :> FC("n", "Amount", "bcd", 12)) @@
    (5 :> FC("n", "Broken", "fixed", -2)) @@
    (7 :> FC("n", "Huge", "fixed", 1000001)) @@
    (64 :> FC("b", "MAC", "fixed", 4)) @@
    (65 :> FC("an", "Extended", "fixed", 4)) @@
    (128 :> FC("ans", "MAC", "lllvar", 999))

\* What yaml.Unmarshal has stored when it fails after the MTI entry.
SchemaPartial == (0 :> FC("n", "MTI", "fixed", 4))

Schemas == {SchemaExample, SchemaFull}

-----------------------------------------------------------------------------
(* isoObject.Parse *)

Outcome(err, elems, at) == [err |-> err, elems |-> elems, at |-> at]

\* One variable-length field: prefix of w digits, then the declared length.
ParseVar(elems, message, pos, i, w) ==
    IF ~SliceOK(message, pos, pos + w) THEN [ok |-> FALSE]
    ELSE LET length == Atoi(Slice(message, pos, pos + w))
         IN  IF ~SliceOK(message, pos + w, pos + w + length) THEN [ok |-> FALSE]
             ELSE [ok |-> TRUE,
                   elems |-> MapSet(elems, i,
                                    Slice(message, pos + w, pos + w + length)),
                   pos |-> pos + w + length]

\* The least element of a non-empty set of integers.
Min(S) == CHOOSE x \in S : \A y \in S : x <= y

\* for i := 2; i <= 128; i++ { if bitmapBytes[(i-1)/8] & ... > 0 { ... } }
\* from index i on.  Iterations whose bit is clear change nothing, so the
\* loop is followed from one index that acts (a bit that is set, or an index
\* beyond the bitmap buffer) to the next.
RECURSIVE ParseLoop(_, _, _, _, _)
ParseLoop(elems, message, bitmapBytes, pos, from) ==
    LET acts == {j \in from..LastField :
                    (j - 1) \div 8 >= Len(bitmapBytes) \/ BitSet(bitmapBytes, j)}
    IN  IF acts = {} THEN Outcome("nil", elems, 0)
        ELSE LET i == Min(acts)
             IN  IF (i - 1) \div 8 >= Len(bitmapBytes)
                 THEN Outcome("panic", elems, i)        \* index out of range
                 ELSE IF i \notin DOMAIN isoConfig
                 THEN Outcome("MissingFieldConfig", elems, i)
                 ELSE LET fieldConfig == isoConfig[i]
                      IN  CASE fieldConfig.LenType = "fixed" ->
                                 IF ~SliceOK(message, pos, pos + fieldConfig.MaxLen)
                                 THEN Outcome("panic", elems, i)  \* slice bounds
                                 ELSE ParseLoop(
                                        MapSet(elems, i,
                                               Slice(message, pos,
                                                     pos + fieldConfig.MaxLen)),
                                        message, bitmapBytes,
                                        pos + fieldConfig.MaxLen, i + 1)
                            [] fieldConfig.LenType \in {"llvar", "lllvar"} ->
                                 LET w == IF fieldConfig.LenType = "llvar"
                                          THEN 2 ELSE 3
                                     r == ParseVar(elems, message, pos, i, w)
                                 IN  IF ~r.ok THEN Outcome("panic", elems, i)
                                     ELSE ParseLoop(r.elems, message, bitmapBytes,
                                                    r.pos, i + 1)
                            [] OTHER -> Outcome("UnsupportedLengthType", elems, i)

\* Parse on an object whose map is elems: the error returned (or "panic"),
\* the map as the call leaves it, and the loop index at which it stopped.
Parse(elems, message) ==
    IF 0 \notin DOMAIN isoConfig THEN Outcome("MTIConfigMissing", elems, 0)
    ELSE IF ~SliceOK(message, 0, isoConfig[0].MaxLen)
         THEN Outcome("panic", elems, 0)
    ELSE LET pos1 == isoConfig[0].MaxLen
             e1 == MapSet(elems, 0, Slice(message, 0, pos1))
         IN  IF 1 \notin DOMAIN isoConfig
             THEN Outcome("BitmapConfigMissing", e1, 0)
             ELSE IF ~SliceOK(message, pos1, pos1 + isoConfig[1].MaxLen)
                  THEN Outcome("panic", e1, 1)
             ELSE LET bitmapHex == Slice(message, pos1, pos1 + isoConfig[1].MaxLen)
                      e2 == MapSet(e1, 1, bitmapHex)
                  IN  IF ~HexDecodeOK(bitmapHex)
                      THEN Outcome("DecodeError", e2, 1)
                      ELSE ParseLoop(e2, message, HexDecode(bitmapHex),
                                     pos1 + isoConfig[1].MaxLen, 2)

-----------------------------------------------------------------------------
(* isoObject.ComposeMessage *)

Padded(panic, text) == [panic |-> panic, text |-> text]

\* padValue(value, maxLen, contentType): the text returned, or the panic of
\* value[:maxLen] when maxLen is negative (slice bounds out of range).  The
\* comparison and the cut count bytes; fmt pads to a width counted in runes,
\* refuses a '*' width above 1000000 and prints %!(BADWIDTH) in its place.
padValue(value, maxLen, contentType) ==
    IF Len(value) > maxLen
    THEN IF SliceOK(value, 0, maxLen)
         THEN Padded(FALSE, Slice(value, 0, maxLen))
         ELSE Padded(TRUE, "")
    ELSE IF maxLen > 1000000
         THEN Padded(FALSE, "%!(BADWIDTH)" \o value)
    ELSE IF contentType = "n"
         THEN Padded(FALSE, Repeat("0", maxLen - RuneCount(value)) \o value)  \* "%0*s"
         ELSE Padded(FALSE, value \o Repeat(" ", maxLen - RuneCount(value)))  \* "%-*s"

\* maxField := 0; for k := range elements { if k > maxField { maxField = k } }
MaxField(elements) ==
    IF \E k \in DOMAIN elements : k > 0
    THEN CHOOSE k \in DOMAIN elements : \A j \in DOMAIN elements : j <= k
    ELSE 0

UseSecondaryBitmap(elements) == MaxField(elements) > 64

BitmapSize(elements) == IF UseSecondaryBitmap(elements) THEN 16 ELSE 8

\* The fields whose bit the loop "for field := range elements" sets in byte
\* number k (counted from 0).
FieldsOfByte(elements, k) ==
    {f \in DOMAIN elements : f > 1 /\ (f - 1) \div 8 = k}

\* SumBits with the bits counted from the least significant end.
RECURSIVE SumBitsMut(_)
SumBitsMut(fs) ==
    IF fs = {} THEN 0
    ELSE LET f == CHOOSE x \in fs : TRUE
         IN  Pow2((f - 1) % 8) + SumBitsMut(fs \ {f})

RECURSIVE SumBits(_)
SumBits(fs) ==
    IF fs = {} THEN 0
    ELSE LET f == CHOOSE x \in fs : TRUE
         IN  Pow2(7 - ((f - 1) % 8)) + SumBits(fs \ {f})

\* bitmap := make([]byte, bitmapSize); bitmap[0] |= 0x80; bitmap[byteIndex] |= ..
\* The bits or-ed into one byte are distinct, so the byte is their sum.
\* An index beyond the buffer (a key above 128, or above 64 never occurs
\* without the secondary bitmap) panics.
ComposeBitmap(elements) ==
    LET size == BitmapSize(elements)
    IN  IF \E f \in DOMAIN elements : f > 1 /\ (f - 1) \div 8 >= size
        THEN [panic |-> TRUE, bytes |-> <<>>]
        ELSE [panic |-> FALSE,
              bytes |-> [b \in 1..size |->
                           (IF b = 1 /\ UseSecondaryBitmap(elements) THEN 128 ELSE 0)
                           + SumBits(FieldsOfByte(elements, b - 1))]]

Composed(err, msg) == [err |-> err, msg |-> msg]

\* The body of the compose loop for a present field i holding value: the
\* error it returns, or the text it appends to the message.
ComposeField(value, i) ==
    IF i \notin DOMAIN isoConfig
    THEN [err |-> "MissingFieldConfig", text |-> ""]
    ELSE LET fieldConfig == isoConfig[i]
             p == padValue(value, fieldConfig.MaxLen, fieldConfig.ContentType)
         IN  CASE fieldConfig.LenType = "fixed" ->
                    IF p.panic THEN [err |-> "panic", text |-> ""]
                    ELSE [err |-> "nil", text |-> p.text]
               [] fieldConfig.LenType = "llvar" ->
                    [err |-> "nil",
                     text |-> SprintfZeroD(2, Len(value)) \o value]
               [] fieldConfig.LenType = "lllvar" ->
                    [err |-> "nil",
                     text |-> SprintfZeroD(3, Len(value)) \o value]
               [] OTHER -> [err |-> "UnsupportedLengthType", text |-> ""]

\* for i := 2; i <= 128; i++ { if value, exists := elements[i]; exists {..} }
\* from index i on, followed from one present key to the next.
RECURSIVE ComposeLoop(_, _, _)
ComposeLoop(elements, message, from) ==
    LET present == {j \in DOMAIN elements : from <= j /\ j <= LastField}
    IN  IF present = {} THEN Composed("nil", message)
        ELSE LET i == Min(present)
                 f == ComposeField(elements[i], i)
             IN  IF f.err # "nil" THEN Composed(f.err, "")
                 ELSE ComposeLoop(elements, message \o f.text, i + 1)

ComposeMessage(elements) ==
    IF DOMAIN elements = {} THEN Composed("EncodeError", "")
    ELSE IF 0 \notin DOMAIN elements THEN Composed("EncodeError", "")
    ELSE LET bm == ComposeBitmap(elements)
         IN  IF bm.panic THEN Composed("panic", "")
             ELSE ComposeLoop(elements,
                              elements[0] \o ToUpper(HexEncode(bm.bytes)),
                              2)

-----------------------------------------------------------------------------
(* isoObject accessors *)

GetField(elems, index) == MapGet(elems, index)

GetMTI(elems) == MapGet(elems, 0)

\* fmt.Sprint(val) for the values SetField is given here: a string is kept,
\* a non-negative int is rendered in decimal.
Sprint(val) == IF val.kind = "int" THEN Itoa(val.num) ELSE val.str

SetFieldMap(elems, index, val) == MapSet(elems, index, Sprint(val))

SetMTIMap(elems, val) == MapSet(elems, 0, val)

-----------------------------------------------------------------------------
(* Inputs of the codec calls *)

PAN == "4111111111111111"

StrVal(s) == [kind |-> "string", str |-> s]
IntVal(n) == [kind |-> "int", num |-> n]

\* (index, val) pairs given to SetField.  129 is beyond the last field,
\* 6 has no schema entry; in SchemaFull 4 has an unknown length type, 5 a
\* negative MaxLen and 7 a MaxLen above a million.
SetFieldInputs ==
    ({3, 65} \X {StrVal("000000"), IntVal(200), StrVal(PAN)})
    \cup ({2} \X {StrVal(PAN), StrVal("")})
    \cup ({65} \X {StrVal("Ã©")})
    \cup ({1, 4, 5, 6, 7, 64, 128, 129} \X {StrVal("0200")})

SetMTIInputs == {"0200", "000000"}

RawHigh == "0200" \o "C0000000000000008000000000000000" \o "017" \o "0200  "
RawExample == "0200" \o "6000000000000000" \o "17" \o PAN \o "000000"
RawEmptyBits == "0200" \o "80000000000000000000000000000000"
RawMissing == "0200" \o "04000000000000000000000000000000"
RawNegative == "0200" \o "08000000000000000000000000000000" \o "000000"
RawUnsupported == "0200" \o "90000000000000000000000000000000"
RawBadHex == "0200" \o "G0000000000000000000000000000000"
RawShortMTI == "02"
RawShortBitmap == "0200C000"
RawShortVar == "0200" \o "C0000000000000008000000000000000" \o "17411"
RawShortFixed == "0200" \o "A0000000000000000000000000000000" \o "000"

RawInputs ==
    {RawHigh, RawExample, RawEmptyBits, RawMissing, RawNegative, RawUnsupported,
     RawBadHex, RawShortMTI, RawShortBitmap, RawShortVar, RawShortFixed}

-----------------------------------------------------------------------------
(* The codec as a state machine: one isoObject driven through its interface *)

Last(op, err, at, raw, msg, before, fresh) ==
    [op |-> op, err |-> err, at |-> at, raw |-> raw, msg |-> msg,
     before |-> before, fresh |-> fresh]

NoCall(op) == Last(op, "nil", 0, "", "", EmptyMap, EmptyMap)

\* A panic ends the program: no call follows it.
Running == last.err # "panic"

EngineIdle ==
    [phase |-> "setup", handlers |-> EmptyMap, defaultHandler |-> "nil",
     accepted |-> 0]

\* A specification file as Load meets it: whether os.ReadFile succeeds, the
\* entries yaml.Unmarshal stores in the map, and whether it returns nil.
SpecFile(readable, decoded, valid) ==
    [readable |-> readable, decoded |-> decoded, valid |-> valid]

LoadInputs ==
    {SpecFile(TRUE, SchemaExample, TRUE), SpecFile(TRUE, SchemaFull, TRUE),
     SpecFile(TRUE, EmptyMap, FALSE), SpecFile(TRUE, SchemaPartial, FALSE),
     SpecFile(FALSE, EmptyMap, FALSE)}

\* err is what the last Load returned.
Loader(isNil, calls, pending, err) ==
    [isNil |-> isNil, calls |-> calls, pending |-> pending, err |-> err]

\* No Load is between allocating the map and returning.
Loaded == loader.pending = <<>>

\* The program has started: isoConfig is nil (a nil map reads as an empty
\* one), no object exists, the engine has no registration.
Init ==
    /\ isoConfig = EmptyMap
    /\ loader = Loader(TRUE, 0, <<>>, "nil")
    /\ created = FALSE
    /\ isoElement = EmptyMap
    /\ last = NoCall("start")
    /\ engine = EngineIdle
    /\ conns = <<>>
    /\ history = <<>>

\* Load(specFile) up to the map allocation: os.ReadFile, the early return on
\* its error, isoConfig = make(map[int]FieldConfig).
LoadBegin(file) ==
    /\ Running /\ engine.phase # "crashed"
    /\ Loaded
    /\ loader.calls < MaxLoads
    /\ IF ~file.readable
       THEN /\ loader' = [loader EXCEPT !.calls = @ + 1, !.err = "ReadError"]
            /\ UNCHANGED isoConfig
       ELSE /\ isoConfig' = EmptyMap
            /\ loader' = Loader(FALSE, loader.calls + 1, <<file>>, "nil")
    /\ last' = NoCall("Load")
    /\ UNCHANGED <<created, isoElement, engine, conns, history>>

\* The entries yaml.Unmarshal has stored part of the way through a document.
Prefix(decoded) == [i \in DOMAIN decoded \cap {0} |-> decoded[i]]

\* yaml.Unmarshal part of the way: the map holds the first entries.  Only a
\* goroutine that runs beside Load sees this state.
LoadFill ==
    /\ Running /\ engine.phase # "crashed"
    /\ ~Loaded
    /\ isoConfig = EmptyMap
    /\ Prefix(loader.pending[1].decoded) \notin {EmptyMap, loader.pending[1].decoded}
    /\ isoConfig' = Prefix(loader.pending[1].decoded)
    /\ UNCHANGED <<loader, created, isoElement, last, engine, conns, history>>

\* Load(specFile) from yaml.Unmarshal on: the entries it stores, its error.
LoadEnd ==
    /\ Running /\ engine.phase # "crashed"
    /\ ~Loaded
    /\ LET file == loader.pending[1]
       IN  /\ isoConfig' = file.decoded
           /\ loader' = [loader EXCEPT
                           !.pending = <<>>,
                           !.err = IF file.valid THEN "nil" ELSE "YamlError"]
    /\ UNCHANGED <<created, isoElement, last, engine, conns, history>>

\* NewISO8583(): an error while isoConfig is nil, else a new object with an
\* empty map.
NewISO8583 ==
    /\ Running /\ Loaded
    /\ IF loader.isNil
       THEN /\ last' = Last("NewISO8583", "LoadFirst", 0, "", "", EmptyMap, EmptyMap)
            /\ UNCHANGED <<created, isoElement>>
       ELSE /\ created' = TRUE
            /\ isoElement' = EmptyMap
            /\ last' = NoCall("NewISO8583")
    /\ UNCHANGED <<isoConfig, loader, engine, conns, history>>

SetField(index, val) ==
    /\ Running /\ Loaded /\ created
    /\ Cardinality(DOMAIN isoElement \cup {index}) <= MaxFields
    /\ isoElement' = SetFieldMap(isoElement, index, val)
    /\ last' = NoCall("SetField")
    /\ UNCHANGED <<isoConfig, loader, created, engine, conns, history>>

SetMTI(val) ==
    /\ Running /\ Loaded /\ created
    /\ Cardinality(DOMAIN isoElement \cup {0}) <= MaxFields
    /\ isoElement' = SetMTIMap(isoElement, val)
    /\ last' = NoCall("SetMTI")
    /\ UNCHANGED <<isoConfig, loader, created, engine, conns, history>>

Clear ==
    /\ Running /\ Loaded /\ created
    /\ isoElement' = EmptyMap
    /\ last' = NoCall("Clear")
    /\ UNCHANGED <<isoConfig, loader, created, engine, conns, history>>

\* p.Parse(message) on the object as it is.
ParseCall(message) ==
    /\ Running /\ Loaded /\ created
    /\ Cardinality(DOMAIN isoElement) <= MaxPrior
    /\ LET r == Parse(isoElement, message)
       IN  /\ isoElement' = r.elems
           /\ last' = Last("Parse", r.err, r.at, message, "", isoElement, EmptyMap)
    /\ UNCHANGED <<isoConfig, loader, created, engine, conns, history>>

\* p.ComposeMessage()
ComposeCall ==
    /\ Running /\ Loaded /\ created
    /\ LET c == ComposeMessage(isoElement)
       IN  last' = Last("ComposeMessage", c.err, 0, "", c.msg, EmptyMap, EmptyMap)
    /\ UNCHANGED <<isoConfig, loader, created, isoElement, engine, conns, history>>

\* NewISO8583() and Parse of the message just composed on that fresh object.
ParseFresh ==
    /\ Loaded /\ created
    /\ last.op = "ComposeMessage" /\ last.err = "nil"
    /\ LET r == Parse(EmptyMap, last.msg)
       IN  last' = Last("ParseFresh", r.err, r.at, last.msg, last.msg,
                        EmptyMap, r.elems)
    /\ UNCHANGED <<isoConfig, loader, created, isoElement, engine, conns, history>>

Next ==
    \/ \E file \in LoadInputs : LoadBegin(file)
    \/ LoadFill
    \/ LoadEnd
    \/ NewISO8583
    \/ \E inp \in SetFieldInputs : SetField(inp[1], inp[2])
    \/ \E v \in SetMTIInputs : SetMTI(v)
    \/ Clear
    \/ \E m \in RawInputs : ParseCall(m)
    \/ ComposeCall
    \/ ParseFresh

Spec == Init /\ [][Next]_vars

-----------------------------------------------------------------------------
(* The dispatch engine: GetEngine, AddHandler, AddDefaultHandler, Run, the
   accept loop and one goroutine handler per accepted connection *)

\* GetEngine(readerTimeout, 0, 3): the routing key is field 0 then field 3.
FieldNumber == <<0, 3>>

BigValue == Repeat("A", 10000)

\* The callbacks registered with the engine (TcpHandler), by what each does
\* to the message object it is given.
HandlerEffect(h, elems) ==
    CASE h = "reply" -> SetFieldMap(SetMTIMap(elems, "0210"), 3, StrVal("000000"))
      [] h = "big" -> SetFieldMap(elems, 128, StrVal(BigValue))
      [] h = "clear" -> EmptyMap
      [] h = "far" -> SetFieldMap(elems, 129, StrVal("0200"))
      [] h = "echo" -> elems

\* strings.Join(parts, "")
RECURSIVE Join(_)
Join(parts) == IF Len(parts) = 0 THEN "" ELSE Head(parts) \o Join(Tail(parts))

\* (handler, key parts) given to AddHandler; "nil" is a nil TcpHandler.
AddHandlerInputs ==
    {<<"reply", <<"0200", "000000">> >>, <<"big", <<"0200">> >>,
     <<"nil", <<"0200", "000000">> >>}
DefaultHandlerInputs == {"echo", "clear", "far"}

MsgKeyed ==
    "0200" \o "A0000000000000008000000000000000" \o "000000" \o "0200  "

\* What tcp.BasicIOHandlerReader hands to the connection handler.
InboundMessages == {MsgKeyed, RawHigh, RawShortMTI, RawMissing}

Conn(pc, message, iso, parsed, invoked, resp, written) ==
    [pc |-> pc, message |-> message, iso |-> iso, parsed |-> parsed,
     invoked |-> invoked, resp |-> resp, written |-> written]

EngineRunning == engine.phase = "running"

\* An unrecovered panic in one goroutine ends the process: the accept loop
\* and every connection still being served end with it.
Crash(c) ==
    /\ engine' = [engine EXCEPT !.phase = "crashed"]
    /\ conns' = [d \in DOMAIN conns |->
                   IF d = c THEN [conns[d] EXCEPT !.pc = "panic"]
                   ELSE IF conns[d].pc = "closed" THEN conns[d]
                   ELSE [conns[d] EXCEPT !.pc = "killed"]]

\* The run time's fatal error "concurrent map read and map write": the
\* process ends, no goroutine panics.
Abort ==
    /\ engine' = [engine EXCEPT !.phase = "crashed"]
    /\ conns' = [d \in DOMAIN conns |->
                   IF conns[d].pc = "closed" THEN conns[d]
                   ELSE [conns[d] EXCEPT !.pc = "killed"]]

\* The goroutine returns (deferred c.Close()): its message and object are
\* dropped; what was parsed, invoked and written is kept as the record of
\* the connection.
Close(c) ==
    conns' = [conns EXCEPT ![c].pc = "closed", ![c].message = "", ![c].iso = EmptyMap]

\* for _, field := range fieldNumber { fieldValues = append(.., iso.GetField(field)) }
\* strings.Join(fieldValues, "")
RoutingKey(elems, fieldNumber) ==
    Join([k \in 1..Len(fieldNumber) |-> GetField(elems, fieldNumber[k])])

\* funct := handlerChain[key]: nil when the key is absent.
Lookup(handlers, key) == IF key \in DOMAIN handlers THEN handlers[key] ELSE "nil"

\* What the routing of lines 113-126 selects when both of its reads see the
\* registrations of one instant: the handler of the key if it is not nil,
\* else the default handler ("nil": none).  Only the history variable uses it.
Selected(handlers, defaultHandler, key) ==
    IF Lookup(handlers, key) # "nil" THEN Lookup(handlers, key) ELSE defaultHandler

\* The history after the registrations have become those of e.
Recorded(e) ==
    [c \in DOMAIN history |->
        IF conns[c].pc = "default"
        THEN history[c] \cup {Selected(e.handlers, e.defaultHandler,
                                       RoutingKey(conns[c].iso, FieldNumber))}
        ELSE history[c]]

\* t.tcpHandlerGroup[strings.Join(key, "")] = handler, at any time: the map
\* is the one the accept loop and the connections hold.
AddHandler(h, key) ==
    /\ engine.phase # "crashed"
    /\ engine' = [engine EXCEPT !.handlers = MapSet(@, Join(key), h)]
    /\ history' = Recorded(engine')
    /\ UNCHANGED <<isoConfig, loader, created, isoElement, last, conns>>

\* AddHandler writing the map while a connection is at its lookup
\* handlerChain[key]: besides the lookup seeing the map before or after the
\* write (AddHandler before or after Dispatch), the run time may end the
\* process.
AddHandlerRace ==
    /\ EngineRunning
    /\ \E c \in DOMAIN conns : conns[c].pc = "dispatch"
    /\ Abort
    /\ UNCHANGED <<isoConfig, loader, created, isoElement, last, history>>

\* defaultHandler = handler, at any time.
AddDefaultHandler(h) ==
    /\ engine.phase # "crashed"
    /\ engine' = [engine EXCEPT !.defaultHandler = h]
    /\ history' = Recorded(engine')
    /\ UNCHANGED <<isoConfig, loader, created, isoElement, last, conns>>

\* yaml.Unmarshal filling isoConfig while a connection reads it in Parse or
\* ComposeMessage: the run time may end the process.
LoadRace ==
    /\ EngineRunning
    /\ ~Loaded
    /\ \E c \in DOMAIN conns : conns[c].pc \in {"parse", "respond"}
    /\ Abort
    /\ UNCHANGED <<isoConfig, loader, created, isoElement, last, history>>

Run ==
    /\ engine.phase = "setup"
    /\ engine' = [engine EXCEPT !.phase = "running"]
    /\ UNCHANGED <<isoConfig, loader, created, isoElement, last, conns, history>>

\* acceptConnection: one turn of the loop; an Accept error is logged and the
\* loop continues, a connection gets its goroutine.
Accept ==
    /\ EngineRunning
    /\ Len(conns) < MaxConns
    /\ \/ /\ conns' = Append(conns, Conn("read", "", EmptyMap, EmptyMap, <<>>, "", ""))
          /\ history' = Append(history, {})
          /\ engine' = [engine EXCEPT !.accepted = @ + 1]
       \/ UNCHANGED <<engine, conns, history>>
    /\ UNCHANGED <<isoConfig, loader, created, isoElement, last>>

\* message, err := tcp.BasicIOHandlerReader(c)
Read(c) ==
    /\ EngineRunning
    /\ conns[c].pc = "read"
    /\ \/ Close(c)
       \/ \E m \in InboundMessages :
             conns' = [conns EXCEPT ![c].pc = "parse", ![c].message = m]
    /\ UNCHANGED <<isoConfig, loader, created, isoElement, last, engine, history>>

\* iso, err := NewISO8583(); err = iso.Parse(message)
ParseMsg(c) ==
    /\ EngineRunning
    /\ conns[c].pc = "parse"
    /\ IF loader.isNil THEN Close(c) /\ UNCHANGED engine
       ELSE LET r == Parse(EmptyMap, conns[c].message)
            IN  CASE r.err = "panic" -> Crash(c)
                  [] r.err = "nil" ->
                       /\ conns' = [conns EXCEPT ![c].pc = "dispatch",
                                                 ![c].iso = r.elems,
                                                 ![c].parsed = r.elems]
                       /\ UNCHANGED engine
                  [] OTHER -> Close(c) /\ UNCHANGED engine
    /\ UNCHANGED <<isoConfig, loader, created, isoElement, last, history>>

\* The routing key, the lookup handlerChain[key], and funct(iso) when it
\* finds a handler; else the connection goes on to read defaultHandler.
Dispatch(c) ==
    /\ EngineRunning
    /\ conns[c].pc = "dispatch"
    /\ LET funct == Lookup(engine.handlers, RoutingKey(conns[c].iso, FieldNumber))
       IN  IF funct # "nil"
           THEN /\ conns' = [conns EXCEPT
                                ![c].pc = "respond",
                                ![c].iso = HandlerEffect(funct, @),
                                ![c].invoked = Append(@, funct)]
                /\ UNCHANGED history
           ELSE /\ conns' = [conns EXCEPT ![c].pc = "default"]
                /\ history' = [history EXCEPT ![c] = {engine.defaultHandler}]
    /\ UNCHANGED <<isoConfig, loader, created, isoElement, last, engine>>

\* if defaultHandler != nil { defaultHandler(iso) } else { return }: the read
\* of the package variable, a step of its own after the lookup.
DispatchDefault(c) ==
    /\ EngineRunning
    /\ conns[c].pc = "default"
    /\ IF engine.defaultHandler = "nil" THEN Close(c)
       ELSE conns' = [conns EXCEPT
                        ![c].pc = "respond",
                        ![c].iso = HandlerEffect(engine.defaultHandler, @),
                        ![c].invoked = Append(@, engine.defaultHandler)]
    /\ history' = [history EXCEPT ![c] = {}]
    /\ UNCHANGED <<isoConfig, loader, created, isoElement, last, engine>>

\* strutils.LeftPad(h, 4, "0"): h padded on the left to the width.  What it
\* returns for a text longer than the width is not fixed here: the text
\* itself, or the text cut to the width from either end.
LeftPadOutcomes(text, width, pad) ==
    IF Len(text) <= width
    THEN {Repeat(pad, width - Len(text)) \o text}
    ELSE {text, SubSeq(text, 1, width),
          SubSeq(text, Len(text) - width + 1, Len(text))}

\* resp, err := iso.ComposeMessage(); the length header; c.Write; the
\* deferred c.Close().
Respond(c) ==
    /\ EngineRunning
    /\ conns[c].pc = "respond"
    /\ LET r == ComposeMessage(conns[c].iso)
       IN  CASE r.err = "panic" -> Crash(c)
             [] r.err = "nil" ->
                  /\ \E h \in LeftPadOutcomes(Itoa(Len(r.msg)), 4, "0") :
                        conns' = [conns EXCEPT ![c].pc = "closed",
                                               ![c].message = "",
                                               ![c].iso = EmptyMap,
                                               ![c].resp = r.msg,
                                               ![c].written = h \o r.msg]
                  /\ UNCHANGED engine
             [] OTHER -> Close(c) /\ UNCHANGED engine
    /\ UNCHANGED <<isoConfig, loader, created, isoElement, last, history>>

NextEngine ==
    \/ \E file \in LoadInputs : LoadBegin(file)
    \/ LoadFill
    \/ LoadEnd
    \/ LoadRace
    \/ \E inp \in AddHandlerInputs : AddHandler(inp[1], inp[2])
    \/ AddHandlerRace
    \/ \E h \in DefaultHandlerInputs : AddDefaultHandler(h)
    \/ Run
    \/ Accept
    \/ \E c \in DOMAIN conns : Read(c)
    \/ \E c \in DOMAIN conns : ParseMsg(c)
    \/ \E c \in DOMAIN conns : Dispatch(c)
    \/ \E c \in DOMAIN conns : DispatchDefault(c)
    \/ \E c \in DOMAIN conns : Respond(c)

SpecEngine == Init /\ [][NextEngine]_vars

-----------------------------------------------------------------------------
(* Properties of the codec *)

DataFields(elems) == {i \in DOMAIN elems : 2 <= i /\ i <= LastField}

Supported == {"fixed", "llvar", "lllvar"}

\* The object holds an MTI of the schema's width and fields 2..128 that are
\* consistent with the schema.
ConsistentWithSchema(elems) ==
    /\ {0, 1} \subseteq DOMAIN isoConfig
    /\ isoConfig[0].LenType = "fixed" /\ isoConfig[1].LenType = "fixed"
    /\ 0 \in DOMAIN elems
    /\ DOMAIN elems \subseteq {0} \cup DataFields(elems)
    /\ Len(elems[0]) = isoConfig[0].MaxLen
    /\ \A i \in DataFields(elems) :
          /\ i \in DOMAIN isoConfig
          /\ \/ isoConfig[i].LenType = "fixed" /\ Len(elems[i]) = isoConfig[i].MaxLen
             \/ isoConfig[i].LenType = "llvar" /\ Len(elems[i]) <= 99
             \/ isoConfig[i].LenType = "lllvar" /\ Len(elems[i]) <= 999

\* C1 (round trip): for an object consistent with the schema, ComposeMessage
\* succeeds, and Parse of its output on a fresh object succeeds and yields
\* the same value for every field index other than 1, and no extra field
\* other than 1.
C1_RoundTrip ==
    ConsistentWithSchema(isoElement) =>
        /\ last.op = "ComposeMessage" => last.err = "nil"
        /\ last.op = "ParseFresh" =>
              /\ last.err = "nil"
              /\ DOMAIN last.fresh \ {1} = DOMAIN isoElement \ {1}
              /\ \A i \in DOMAIN isoElement \ {1} : last.fresh[i] = isoElement[i]

ExampleObject == (0 :> "0200") @@ (2 :> PAN) @@ (3 :> "000000")

\* C2 (end-to-end example): under the example schema the example object
\* composes to "0200", the bitmap 6000000000000000, "17", the PAN and
\* "000000", and Parse of that output on a fresh object succeeds and
\* reproduces fields 0, 2 and 3.
C2_EndToEnd ==
    (isoConfig = SchemaExample /\ isoElement = ExampleObject) =>
        /\ last.op = "ComposeMessage" =>
              /\ last.err = "nil"
              /\ last.msg = "0200" \o "6000000000000000" \o "17" \o PAN \o "000000"
        /\ last.op = "ParseFresh" =>
              /\ last.err = "nil"
              /\ \A i \in {0, 2, 3} : GetField(last.fresh, i) = ExampleObject[i]

\* Width of what a successful compose emits for data field i.
EmittedWidth(elems, i) ==
    CASE isoConfig[i].LenType = "fixed" -> isoConfig[i].MaxLen
      [] isoConfig[i].LenType = "llvar" -> 2 + Len(elems[i])
      [] isoConfig[i].LenType = "lllvar" -> 3 + Len(elems[i])

RECURSIVE SumWidths(_, _)
SumWidths(elems, fs) ==
    IF fs = {} THEN 0
    ELSE LET f == CHOOSE x \in fs : TRUE
         IN  EmittedWidth(elems, f) + SumWidths(elems, fs \ {f})

ExpectedBitmapBytes(elems) ==
    IF \A f \in DataFields(elems) : f <= 64 THEN 8 ELSE 16

\* C3 (bitmap correctness): when ComposeMessage succeeds on an object with
\* a non-empty set S of fields in 2..128, the message is the MTI, then the
\* bitmap, then at once the data of the fields; the bitmap is upper-case hex
\* of exactly 8 bytes with bit 1 clear if max(S) <= 64 and of exactly 16
\* bytes with bit 1 set otherwise; the bit of every f in S is set and every
\* other bit is clear, whether or not field 1 is stored.
C3_BitmapCorrect ==
    (last.op = "ComposeMessage" /\ last.err = "nil"
     /\ DataFields(isoElement) # {}) =>
        LET S == DataFields(isoElement)
            size == ExpectedBitmapBytes(isoElement)
            mti == Len(isoElement[0])
            hex == SubSeq(last.msg, mti + 1, mti + 2 * size)
        IN  /\ Len(last.msg) >= mti + 2 * size
            /\ SubSeq(last.msg, 1, mti) = isoElement[0]
            /\ SubSeq(last.msg, mti + 2 * size + 1, Len(last.msg))
                  = ComposeLoop(isoElement, "", 2).msg
            /\ Chars(hex) \subseteq Chars(HexUpper)
            /\ \A f \in 1..(8 * size) :
                  BitSet(HexDecode(hex), f) <=> (f \in S \/ (f = 1 /\ size = 16))

C3_Witness ==
    /\ last.op = "ComposeMessage" /\ last.err = "nil"
    /\ 1 \in DOMAIN isoElement
    /\ \E f \in DataFields(isoElement) : f > 64

\* Parse stopped at a bit that is set in the bitmap it decoded and whose
\* field index has no schema entry.
ParseMetMissing ==
    /\ last.op \in {"Parse", "ParseFresh"}
    /\ last.at >= 2
    /\ last.at \notin DOMAIN isoConfig
    /\ LET bytes == HexDecode(Slice(last.raw, isoConfig[0].MaxLen,
                                    isoConfig[0].MaxLen + isoConfig[1].MaxLen))
       IN  (last.at - 1) \div 8 < Len(bytes) /\ BitSet(bytes, last.at)

\* C4 (missing-schema rejection): Parse that meets a set bit of a field
\* with no schema entry, and ComposeMessage on an object that holds the MTI
\* (without it the call is an EncodeError) and a value for a field index
\* other than 0 and 1 with no schema entry, return MissingFieldConfig: no
\* other error, no abnormal termination, no success.
C4_MissingSchemaRejected ==
    /\ ParseMetMissing => last.err = "MissingFieldConfig"
    /\ (last.op = "ComposeMessage"
        /\ 0 \in DOMAIN isoElement
        /\ \E i \in DOMAIN isoElement \ {0, 1} : i \notin DOMAIN isoConfig)
          => last.err = "MissingFieldConfig"

\* The raw message is shorter than the MTI width or than MTI plus bitmap
\* width, or the bitmap buffer is too short for a bit position Parse tests,
\* or a present field (of a width that is not negative) overruns the message.
ShortInput ==
    /\ {0, 1} \subseteq DOMAIN isoConfig
    /\ \/ Len(last.raw) < isoConfig[0].MaxLen + isoConfig[1].MaxLen
       \/ /\ last.at >= 2
          /\ Parse(last.before, last.raw).err = "panic"
          /\ last.at \in DOMAIN isoConfig => isoConfig[last.at].MaxLen >= 0

\* C5 (short-input rejection): Parse of a short input returns DecodeError
\* and the object holds no field populated by the failed call.
C5_ShortInputRejected ==
    (last.op = "Parse" /\ ShortInput) =>
        (last.err = "DecodeError" /\ isoElement = last.before)

ExpectedFixed(value, n, contentType) ==
    IF Len(value) < n
    THEN IF contentType = "n"
         THEN Repeat("0", n - Len(value)) \o value
         ELSE value \o Repeat(" ", n - Len(value))
    ELSE SubSeq(value, 1, n)

\* Where a successful compose puts data field i: after the MTI, the bitmap
\* and the lower data fields.
EmittedOffset(elems, i) ==
    Len(elems[0]) + 2 * ExpectedBitmapBytes(elems)
    + SumWidths(elems, {j \in DataFields(elems) : j < i})

\* C9 (padding laws): when ComposeMessage succeeds, every fixed data field
\* with MaxLen N is emitted as exactly N characters: the value left-padded
\* with "0" (ContentType "n") or right-padded with spaces (otherwise) if it
\* is shorter than N, its first N characters if longer, itself if equal.
C9_PaddingLaws ==
    (last.op = "ComposeMessage" /\ last.err = "nil") =>
        /\ Len(last.msg) = EmittedOffset(isoElement, LastField + 1)
        /\ \A i \in DataFields(isoElement) :
              isoConfig[i].LenType = "fixed" =>
                 LET n == isoConfig[i].MaxLen
                     off == EmittedOffset(isoElement, i)
                 IN  SubSeq(last.msg, off + 1, off + n)
                       = ExpectedFixed(isoElement[i], n, isoConfig[i].ContentType)

\* C10 (Parse fully replaces prior content): after a successful Parse(raw)
\* the object holds exactly the fields decoded from raw, that is, what the
\* same Parse leaves in an empty object.
C10_ParseReplaces ==
    (last.op = "Parse" /\ last.err = "nil") =>
        isoElement = Parse(EmptyMap, last.raw).elems

-----------------------------------------------------------------------------
(* Properties of the dispatch engine *)

\* C6 (error containment): a failure in one connection's step ends only
\* that connection; the accept loop keeps accepting and no other connection
\* is ended by it.
C6_Containment ==
    (\E c \in DOMAIN conns : conns[c].pc = "panic") =>
        /\ engine.phase = "running"
        /\ \A d \in DOMAIN conns : conns[d].pc # "killed"

RECURSIVE ConcatFields(_, _)
ConcatFields(elems, indices) ==
    IF indices = <<>> THEN ""
    ELSE MapGet(elems, Head(indices)) \o ConcatFields(elems, Tail(indices))

\* What a connection that has left its routing invoked ("nil": nothing).
Invoked(conn) == IF conn.invoked = <<>> THEN "nil" ELSE conn.invoked[1]

\* The routing of one connection: what it invokes is what the routing rule
\* selects for its key under the registrations in place at some instant of
\* the routing (a nil registration is no handler).
RoutingStep(c) ==
    LET key == ConcatFields(conns[c].parsed, FieldNumber)
        now == Selected(engine.handlers, engine.defaultHandler, key)
    IN  /\ (conns[c].pc = "dispatch" /\ conns'[c].pc \in {"respond", "closed"})
              => Invoked(conns'[c]) = now
        /\ (conns[c].pc = "default" /\ conns'[c].pc \in {"respond", "closed"})
              => Invoked(conns'[c]) \in history[c]
        /\ (conns'[c].pc = "closed" /\ conns'[c].invoked = <<>>)
              => conns'[c].written = ""

\* No handler is invoked before the routing or after it, and a connection on
\* which no handler was invoked is written nothing.
RoutingOnce(c) ==
    /\ conns[c].pc \in {"read", "parse", "dispatch", "default"}
          => conns[c].invoked = <<>>
    /\ Len(conns[c].invoked) <= 1
    /\ conns[c].invoked = <<>> => conns[c].written = ""

\* C7 (routing): for a connection whose message was read and parsed, the
\* routing key is the concatenation in list order of the configured fields;
\* the handler registered under that key and no other is invoked once, else
\* the default handler once if there is one, else no handler is invoked and
\* nothing is written.
C7_Routing ==
    /\ [](\A c \in DOMAIN conns : RoutingOnce(c))
    /\ [][\A c \in DOMAIN conns :
             /\ RoutingStep(c)
             /\ conns[c].pc \notin {"dispatch", "default"}
                   => conns'[c].invoked = conns[c].invoked]_vars

\* C8 (response framing): every response written is a header of exactly 4
\* decimal digits whose value is the byte length of the composed message
\* that follows it.
C8_Framing ==
    \A c \in DOMAIN conns :
        conns[c].written # "" =>
            LET header == SubSeq(conns[c].written, 1, 4)
            IN  /\ Len(conns[c].written) = 4 + Len(conns[c].resp)
                /\ SubSeq(conns[c].written, 5, Len(conns[c].written)) = conns[c].resp
                /\ IsDigits(header)
                /\ DigitsValue(header) = Len(conns[c].resp)
====
